---- MODULE Spec2Model ----
(***************************************************************************)
(* core_memo: the three memoization cells MemoExt, Memo and MemoOnce of    *)
(* src/src/lib.rs, each a cached-value slot `value: Option<T>` over a      *)
(* computation `Memoize::memoize`, with the call counting computation of   *)
(* src/src/tests.rs (CallTracker) observing every invocation.              *)
(*                                                                         *)
(* A behaviour of Spec is the life of one cell: Init constructs a cell of  *)
(* one of the three types, every step is one call of one of its methods.   *)
(***************************************************************************)
EXTENDS Integers, Sequences, FiniteSets, TLC

(* ------------------------------ bounds --------------------------------- *)

\* longest sequence held by a Memo<MemoSum, Vec<i32>>
MaxLen == 3
\* the computation is invoked at most MaxCalls times in a behaviour
MaxCalls == 4
\* runs of one repeated method are counted exactly up to MaxRun calls
MaxRun == 3
\* longest sequence reached by the pushes of the test `sums`
SumsMaxLen == 4

(* --------------------------- Option<T> --------------------------------- *)

\* Option<T> is a sequence of length at most one
None == <<>>
Some(x) == <<x>>
is_some(o) == Len(o) > 0
is_none(o) == Len(o) = 0

(* ------------------- the computations (impl Memoize) ------------------- *)

RECURSIVE SumSeq(_)
SumSeq(s) == IF s = <<>> THEN 0 ELSE s[1] + SumSeq(Tail(s))

\* CopyInt(*p)
CopyInt_memoize(p) == p
\* MemoSum(p.iter().sum())
MemoSum_memoize(p) == SumSeq(p)
\* MemoLength(p.len())
MemoLength_memoize(p) == Len(p)

(* ------------------------- parameter domains --------------------------- *)

\* the elements of the sequences: those of vec![1, 2]
Elems == {1, 2}

RECURSIVE SeqsUpTo(_)
SeqsUpTo(n) ==
    IF n = 0 THEN {<<>>}
    ELSE LET shorter == SeqsUpTo(n - 1)
         IN shorter \cup {Append(s, e) : s \in {t \in shorter : Len(t) = n - 1}, e \in Elems}

\* the Vec<i32> values a Memo may own
OwnParams == SeqsUpTo(MaxLen)
\* the Vec<i32> values a Memo is constructed with: an empty one, and vec![1, 2]
OwnInitParams == {<<>>, <<1, 2>>}
\* the elements the test `sums` holds and pushes: vec![1, 2], push(3), push(4)
SumsElems == {1, 2, 3, 4}
\* the i32 values passed to a MemoExt<CopyInt>
ExtParams == {42, 420} \cup Elems
\* the String values a MemoOnce<MemoLength> may borrow
OnceParams == {"My length is important!", "", "memo"}

(* ------------------------------ MemoExt -------------------------------- *)
(* Every method is an operator from the cell `self` (and the call count n  *)
(* of the computation so far) to the cell, the count and the result after. *)

MemoExt_new == [value |-> None]

\* a clear() that leaves the cached value in place
MemoExt_clear_keeps(self) == self

MemoExt_clear(self) == [self EXCEPT !.value = None]

MemoExt_is_ready(self) == is_some(self.value)

\* a ready() that recomputes over a value cached from another parameter
MemoExt_ready_checks_param(self, n, p) ==
    IF self.value = Some(CopyInt_memoize(p))
    THEN [self |-> self, n |-> n]
    ELSE [self |-> [self EXCEPT !.value = Some(CopyInt_memoize(p))], n |-> n + 1]

\* a ready() that computes whether or not a value is cached
MemoExt_ready_always(self, n, p) ==
    [self |-> [self EXCEPT !.value = Some(CopyInt_memoize(p))], n |-> n + 1]

MemoExt_ready(self, n, p) ==
    IF is_none(self.value)
    THEN [self |-> [self EXCEPT !.value = Some(CopyInt_memoize(p))], n |-> n + 1]
    ELSE [self |-> self, n |-> n]

\* an update() that keeps a value already cached
MemoExt_update_lazy(self, n, p) == MemoExt_ready(self, n, p)

MemoExt_update(self, n, p) ==
    [self |-> [self EXCEPT !.value = Some(CopyInt_memoize(p))], n |-> n + 1]

MemoExt_try_get(self) == self.value

\* a get() that recomputes when the cached value is not the one of p
MemoExt_get_checks_param(self, n, p) ==
    IF self.value = Some(CopyInt_memoize(p))
    THEN [self |-> self, n |-> n, ret |-> self.value, panic |-> FALSE]
    ELSE [self |-> [self EXCEPT !.value = Some(CopyInt_memoize(p))], n |-> n + 1,
          ret |-> Some(CopyInt_memoize(p)), panic |-> FALSE]

\* self.ready(p); self.try_get().unwrap()  -- unwrap of None panics
MemoExt_get(self, n, p) ==
    LET r == MemoExt_ready(self, n, p)
        o == MemoExt_try_get(r.self)
    IN [self |-> r.self, n |-> r.n, ret |-> o, panic |-> is_none(o)]

(* --------------------------- MemoExt<MemoSum> -------------------------- *)
(* The same methods of impl MemoExt with T = MemoSum, the computation of   *)
(* the Memo it is run beside in SpecPair.                                  *)

MemoExtSum_clear(self) == [self EXCEPT !.value = None]

MemoExtSum_is_ready(self) == is_some(self.value)

MemoExtSum_ready(self, n, p) ==
    IF is_none(self.value)
    THEN [self |-> [self EXCEPT !.value = Some(MemoSum_memoize(p))], n |-> n + 1]
    ELSE [self |-> self, n |-> n]

MemoExtSum_update(self, n, p) ==
    [self |-> [self EXCEPT !.value = Some(MemoSum_memoize(p))], n |-> n + 1]

MemoExtSum_try_get(self) == self.value

MemoExtSum_get(self, n, p) ==
    LET r == MemoExtSum_ready(self, n, p)
        o == MemoExtSum_try_get(r.self)
    IN [self |-> r.self, n |-> r.n, ret |-> o, panic |-> is_none(o)]

(* -------------------------------- Memo --------------------------------- *)

\* a new() that computes at construction
Memo_new_eager(p) == [value |-> Some(MemoSum_memoize(p)), param |-> p]

Memo_new(p) == [value |-> None, param |-> p]

Memo_clear(self) == [self EXCEPT !.value = None]

\* an is_ready() with its test inverted
Memo_is_ready_inverted(self) == is_none(self.value)

Memo_is_ready(self) == is_some(self.value)

\* a ready() that computes whether or not a value is cached
Memo_ready_always(self, n) ==
    [self |-> [self EXCEPT !.value = Some(MemoSum_memoize(self.param))], n |-> n + 1]

Memo_ready(self, n) ==
    IF is_none(self.value)
    THEN [self |-> [self EXCEPT !.value = Some(MemoSum_memoize(self.param))], n |-> n + 1]
    ELSE [self |-> self, n |-> n]

\* an update() that keeps a value already cached
Memo_update_lazy(self, n) == Memo_ready(self, n)

\* an update() that moves the parameter out while it computes
Memo_update_takes_param(self, n) ==
    [self |-> [value |-> Some(MemoSum_memoize(self.param)), param |-> <<>>], n |-> n + 1]

Memo_update(self, n) ==
    [self |-> [self EXCEPT !.value = Some(MemoSum_memoize(self.param))], n |-> n + 1]

\* a try_get() that never finds the cached value
Memo_try_get_none(self) == None

Memo_try_get(self) == self.value

\* a get() that goes through update() instead of ready()
Memo_get_updates(self, n) ==
    LET r == Memo_update(self, n)
    IN [self |-> r.self, n |-> r.n, ret |-> r.self.value, panic |-> FALSE]

Memo_get(self, n) ==
    LET r == Memo_ready(self, n)
        o == Memo_try_get(r.self)
    IN [self |-> r.self, n |-> r.n, ret |-> o, panic |-> is_none(o)]

Memo_param(self) == self.param

\* a param_mut() without the clear()
Memo_param_mut_noclear(self, q) == [self EXCEPT !.param = q]

\* self.clear(); &mut self.param  -- the caller then leaves q behind the handle
Memo_param_mut(self, q) == [Memo_clear(self) EXCEPT !.param = q]

\* the closures passed to update_param: FnOnce(&mut Vec<i32>)
Ops == {[name |-> "identity", x |-> 0], [name |-> "pop", x |-> 0], [name |-> "clear", x |-> 0]}
       \cup {[name |-> "push", x |-> e] : e \in Elems}

OpEnabled(op, p) == op.name = "push" => Len(p) < MaxLen

Apply(op, p) ==
    CASE op.name = "identity" -> p
      [] op.name = "push" -> Append(p, op.x)
      [] op.name = "pop" -> IF p = <<>> THEN p ELSE SubSeq(p, 1, Len(p) - 1)
      [] op.name = "clear" -> <<>>

\* an update_param() that clears only when op changes the parameter
Memo_update_param_ifchanged(self, op) ==
    IF Apply(op, self.param) = self.param
    THEN self
    ELSE [Memo_clear(self) EXCEPT !.param = Apply(op, self.param)]

\* an update_param() whose op works on a copy of the parameter
Memo_update_param_on_copy(self, op) == Memo_clear(self)

\* an update_param() without the clear()
Memo_update_param_noclear(self, op) == [self EXCEPT !.param = Apply(op, self.param)]

\* self.clear(); op(&mut self.param)
Memo_update_param(self, op) ==
    LET cleared == Memo_clear(self)
    IN [cleared EXCEPT !.param = Apply(op, cleared.param)]

(* ------------------------------ MemoOnce ------------------------------- *)

MemoOnce_new(p) == [value |-> None, param |-> p]

\* a clear() that leaves the cached value in place
MemoOnce_clear_keeps(self) == self

MemoOnce_clear(self) == [self EXCEPT !.value = None]

MemoOnce_is_ready(self) == is_some(self.value)

\* a ready() with its test inverted: it computes only over a cached value
MemoOnce_ready_inverted(self, n) ==
    IF is_some(self.value)
    THEN [self |-> [self EXCEPT !.value = Some(MemoLength_memoize(self.param))], n |-> n + 1]
    ELSE [self |-> self, n |-> n]

MemoOnce_ready(self, n) ==
    IF is_none(self.value)
    THEN [self |-> [self EXCEPT !.value = Some(MemoLength_memoize(self.param))], n |-> n + 1]
    ELSE [self |-> self, n |-> n]

\* an update() that only discards the value, leaving the computation for later
MemoOnce_update_discards(self, n) == [self |-> [self EXCEPT !.value = None], n |-> n]

\* an update() that computes only when no value is cached
MemoOnce_update_ifabsent(self, n) == MemoOnce_ready(self, n)

MemoOnce_update(self, n) ==
    [self |-> [self EXCEPT !.value = Some(MemoLength_memoize(self.param))], n |-> n + 1]

MemoOnce_try_get(self) == self.value

\* a get() that computes on every call
MemoOnce_get_recomputes(self, n) ==
    LET r == MemoOnce_update(self, n)
    IN [self |-> r.self, n |-> r.n, ret |-> r.self.value, panic |-> FALSE]

MemoOnce_get(self, n) ==
    LET r == MemoOnce_ready(self, n)
        o == MemoOnce_try_get(r.self)
    IN [self |-> r.self, n |-> r.n, ret |-> o, panic |-> is_none(o)]

MemoOnce_param(self) == self.param

(* ------------------------------- state --------------------------------- *)

VARIABLES
    kind,      \* the type of the cell this behaviour constructs
    ext,       \* the MemoExt<CopyInt>
    own,       \* the Memo<MemoSum, Vec<i32>>
    once,      \* the MemoOnce<MemoLength>
    count,     \* CallTracker::count: invocations of memoize so far
    panicked,  \* an unwrap() of None has happened
    src,       \* MemoExt: Some(parameter the cached value was computed from)
    param0,    \* Memo, MemoOnce: the parameter given to new()
    lastOp,    \* the method called last ("new" after construction)
    lastArg,   \* Some(its argument), None for a method without one
    lastRet,   \* what it returned, as an Option
    run,       \* how many times in a row lastOp has now been called
    runCalls,  \* count before the first call of that run
    runReady,  \* is_ready() before the first call of that run
    fresh,     \* a ready()/get() has returned and nothing invalidated since
    peer,      \* SpecPair: the count and the last result of the MemoExt beside the Memo
    accounted  \* calls so far of ready()/get() on a slot that was None, and of update()

vars == <<kind, ext, own, once, count, panicked, src, param0,
          lastOp, lastArg, lastRet, run, runCalls, runReady, fresh, peer,
          accounted>>

Kinds == {"MemoExt", "Memo", "MemoOnce"}

\* is_ready() of the cell of this behaviour
IsReady ==
    CASE kind = "MemoExt" -> MemoExt_is_ready(ext)
      [] kind = "Memo" -> Memo_is_ready(own)
      [] kind = "MemoOnce" -> MemoOnce_is_ready(once)
      [] kind = "Pair" -> Memo_is_ready(own)

\* the field `value` of the cell of this behaviour
Slot ==
    CASE kind = "MemoExt" -> ext.value
      [] kind = "Memo" -> own.value
      [] kind = "MemoOnce" -> once.value
      [] kind = "Pair" -> own.value

Init ==
    /\ kind \in Kinds
    /\ ext = MemoExt_new
    /\ own \in {Memo_new(p) : p \in IF kind = "Memo" THEN OwnInitParams ELSE {<<>>}}
    /\ once \in {MemoOnce_new(p) : p \in IF kind = "MemoOnce" THEN OnceParams ELSE {""}}
    /\ count = 0
    /\ panicked = FALSE
    /\ src = None
    /\ param0 = CASE kind = "MemoExt" -> None
                  [] kind = "Memo" -> own.param
                  [] kind = "MemoOnce" -> once.param
    /\ lastOp = "new"
    /\ lastArg = None
    /\ lastRet = None
    /\ run = 1
    /\ runCalls = 0
    /\ runReady = FALSE
    /\ fresh = FALSE
    /\ peer = [n |-> 0, ret |-> None]
    /\ accounted = 0

\* the bookkeeping of one call: what was called, with what, what it returned
Called(op, arg, ret) ==
    /\ lastOp' = op
    /\ lastArg' = arg
    /\ lastRet' = ret
    /\ run' = IF op = lastOp THEN (IF run > MaxRun THEN run ELSE run + 1) ELSE 1
    /\ runCalls' = IF op = lastOp THEN runCalls ELSE count
    /\ runReady' = IF op = lastOp THEN runReady ELSE IsReady
    /\ fresh' = CASE op \in {"ready", "get"} -> TRUE
                  [] op \in {"clear", "param_mut", "update_param"} -> FALSE
                  [] OTHER -> fresh
    /\ accounted' = IF (op \in {"ready", "get"} /\ Slot = None) \/ op = "update"
                     THEN accounted + 1 ELSE accounted

(* --------------------------- MemoExt actions --------------------------- *)

ExtClear ==
    /\ kind = "MemoExt"
    /\ ext' = MemoExt_clear(ext)
    /\ src' = None
    /\ Called("clear", None, None)
    /\ UNCHANGED <<kind, peer, param0, own, once, count, panicked>>

ExtIsReady ==
    /\ kind = "MemoExt"
    /\ Called("is_ready", None, Some(MemoExt_is_ready(ext)))
    /\ UNCHANGED <<kind, peer, param0, ext, own, once, count, panicked, src>>

ExtReady(p) ==
    /\ kind = "MemoExt"
    /\ LET r == MemoExt_ready(ext, count, p)
       IN /\ r.n <= MaxCalls
          /\ ext' = r.self
          /\ count' = r.n
          /\ src' = IF r.n > count THEN Some(p) ELSE src
    /\ Called("ready", Some(p), None)
    /\ UNCHANGED <<kind, peer, param0, own, once, panicked>>

ExtUpdate(p) ==
    /\ kind = "MemoExt"
    /\ LET r == MemoExt_update(ext, count, p)
       IN /\ r.n <= MaxCalls
          /\ ext' = r.self
          /\ count' = r.n
          /\ src' = IF r.n > count THEN Some(p) ELSE src
    /\ Called("update", Some(p), None)
    /\ UNCHANGED <<kind, peer, param0, own, once, panicked>>

ExtGet(p) ==
    /\ kind = "MemoExt"
    /\ LET r == MemoExt_get(ext, count, p)
       IN /\ r.n <= MaxCalls
          /\ ext' = r.self
          /\ count' = r.n
          /\ src' = IF r.n > count THEN Some(p) ELSE src
          /\ panicked' = (panicked \/ r.panic)
          /\ Called("get", Some(p), r.ret)
    /\ UNCHANGED <<kind, peer, param0, own, once>>

ExtTryGet ==
    /\ kind = "MemoExt"
    /\ Called("try_get", None, MemoExt_try_get(ext))
    /\ UNCHANGED <<kind, peer, param0, ext, own, once, count, panicked, src>>

(* ---------------------------- Memo actions ----------------------------- *)

OwnClear ==
    /\ kind = "Memo"
    /\ own' = Memo_clear(own)
    /\ Called("clear", None, None)
    /\ UNCHANGED <<kind, peer, param0, ext, once, count, panicked, src>>

OwnIsReady ==
    /\ kind = "Memo"
    /\ Called("is_ready", None, Some(Memo_is_ready(own)))
    /\ UNCHANGED <<kind, peer, param0, ext, own, once, count, panicked, src>>

OwnReady ==
    /\ kind = "Memo"
    /\ LET r == Memo_ready(own, count)
       IN /\ r.n <= MaxCalls
          /\ own' = r.self
          /\ count' = r.n
    /\ Called("ready", None, None)
    /\ UNCHANGED <<kind, peer, param0, ext, once, panicked, src>>

OwnUpdate ==
    /\ kind = "Memo"
    /\ LET r == Memo_update(own, count)
       IN /\ r.n <= MaxCalls
          /\ own' = r.self
          /\ count' = r.n
    /\ Called("update", None, None)
    /\ UNCHANGED <<kind, peer, param0, ext, once, panicked, src>>

OwnGet ==
    /\ kind = "Memo"
    /\ LET r == Memo_get(own, count)
       IN /\ r.n <= MaxCalls
          /\ own' = r.self
          /\ count' = r.n
          /\ panicked' = (panicked \/ r.panic)
          /\ Called("get", None, r.ret)
    /\ UNCHANGED <<kind, peer, param0, ext, once, src>>

OwnTryGet ==
    /\ kind = "Memo"
    /\ Called("try_get", None, Memo_try_get(own))
    /\ UNCHANGED <<kind, peer, param0, ext, own, once, count, panicked, src>>

OwnParam ==
    /\ kind = "Memo"
    /\ Called("param", None, Some(Memo_param(own)))
    /\ UNCHANGED <<kind, peer, param0, ext, own, once, count, panicked, src>>

\* param_mut(), and whatever the caller does through the handle it returns
OwnParamMut(q) ==
    /\ kind = "Memo"
    /\ own' = Memo_param_mut(own, q)
    /\ Called("param_mut", Some(q), None)
    /\ UNCHANGED <<kind, peer, param0, ext, once, count, panicked, src>>

OwnUpdateParamCall(op) ==
    /\ kind = "Memo"
    /\ own' = Memo_update_param(own, op)
    /\ Called("update_param", Some(op), None)
    /\ UNCHANGED <<kind, peer, param0, ext, once, count, panicked, src>>

\* update_param(op), for the closures that keep the parameter within MaxLen
OwnUpdateParam(op) ==
    /\ OpEnabled(op, own.param)
    /\ OwnUpdateParamCall(op)

(* -------------------------- MemoOnce actions --------------------------- *)

OnceClear ==
    /\ kind = "MemoOnce"
    /\ once' = MemoOnce_clear(once)
    /\ Called("clear", None, None)
    /\ UNCHANGED <<kind, peer, param0, ext, own, count, panicked, src>>

OnceIsReady ==
    /\ kind = "MemoOnce"
    /\ Called("is_ready", None, Some(MemoOnce_is_ready(once)))
    /\ UNCHANGED <<kind, peer, param0, ext, own, once, count, panicked, src>>

OnceReady ==
    /\ kind = "MemoOnce"
    /\ LET r == MemoOnce_ready(once, count)
       IN /\ r.n <= MaxCalls
          /\ once' = r.self
          /\ count' = r.n
    /\ Called("ready", None, None)
    /\ UNCHANGED <<kind, peer, param0, ext, own, panicked, src>>

OnceUpdate ==
    /\ kind = "MemoOnce"
    /\ LET r == MemoOnce_update(once, count)
       IN /\ r.n <= MaxCalls
          /\ once' = r.self
          /\ count' = r.n
    /\ Called("update", None, None)
    /\ UNCHANGED <<kind, peer, param0, ext, own, panicked, src>>

OnceGet ==
    /\ kind = "MemoOnce"
    /\ LET r == MemoOnce_get(once, count)
       IN /\ r.n <= MaxCalls
          /\ once' = r.self
          /\ count' = r.n
          /\ panicked' = (panicked \/ r.panic)
          /\ Called("get", None, r.ret)
    /\ UNCHANGED <<kind, peer, param0, ext, own, src>>

OnceTryGet ==
    /\ kind = "MemoOnce"
    /\ Called("try_get", None, MemoOnce_try_get(once))
    /\ UNCHANGED <<kind, peer, param0, ext, own, once, count, panicked, src>>

OnceParam ==
    /\ kind = "MemoOnce"
    /\ Called("param", None, Some(MemoOnce_param(once)))
    /\ UNCHANGED <<kind, peer, param0, ext, own, once, count, panicked, src>>

(* --------------------------- specification ----------------------------- *)

Next ==
    \/ ExtClear
    \/ ExtIsReady
    \/ \E p \in ExtParams : ExtReady(p)
    \/ \E p \in ExtParams : ExtUpdate(p)
    \/ \E p \in ExtParams : ExtGet(p)
    \/ ExtTryGet
    \/ OwnClear
    \/ OwnIsReady
    \/ OwnReady
    \/ OwnUpdate
    \/ OwnGet
    \/ OwnTryGet
    \/ OwnParam
    \/ \E q \in OwnParams : OwnParamMut(q)
    \/ \E op \in Ops : OwnUpdateParam(op)
    \/ OnceClear
    \/ OnceIsReady
    \/ OnceReady
    \/ OnceUpdate
    \/ OnceGet
    \/ OnceTryGet
    \/ OnceParam

Spec == Init /\ [][Next]_vars

(* ------------------------- the test `sums` ----------------------------- *)
(* The caller of tests.rs `sums` and of the crate's example: a Memo over   *)
(* vec![1, 2]; it calls get(), and after a get() it may push an element,   *)
(* through param_mut() or through update_param(), and call get() again.    *)

SumsInit ==
    /\ kind = "Memo"
    /\ ext = MemoExt_new
    /\ own = Memo_new(<<1, 2>>)
    /\ once = MemoOnce_new("")
    /\ count = 0
    /\ panicked = FALSE
    /\ src = None
    /\ param0 = <<1, 2>>
    /\ lastOp = "new"
    /\ lastArg = None
    /\ lastRet = None
    /\ run = 1
    /\ runCalls = 0
    /\ runReady = FALSE
    /\ fresh = FALSE
    /\ peer = [n |-> 0, ret |-> None]
    /\ accounted = 0

\* memo.get()
SumsGet == OwnGet

\* memo.param_mut().push(x)
SumsParamMutPush(x) ==
    /\ lastOp = "get"
    /\ Len(own.param) < SumsMaxLen
    /\ OwnParamMut(Append(own.param, x))

\* memo.update_param(|p| p.push(x))
SumsUpdateParamPush(x) ==
    /\ lastOp = "get"
    /\ Len(own.param) < SumsMaxLen
    /\ OwnUpdateParamCall([name |-> "push", x |-> x])

SumsNext ==
    \/ SumsGet
    \/ \E x \in SumsElems : SumsParamMutPush(x)
    \/ \E x \in SumsElems : SumsUpdateParamPush(x)

SpecSums == SumsInit /\ [][SumsNext]_vars

(* --------------------- a Memo beside a MemoExt -------------------------- *)
(* SpecPair: a Memo<MemoSum> and a MemoExt<MemoSum> driven by one caller.  *)
(* Every call on the Memo is made on the MemoExt too, which is passed the  *)
(* Memo's stored parameter and is cleared wherever the Memo hands out      *)
(* mutable access to its parameter. count and lastRet are the Memo's,      *)
(* peer.n and peer.ret the MemoExt's.                                      *)

PairInit ==
    /\ kind = "Pair"
    /\ ext = MemoExt_new
    /\ own \in {Memo_new(p) : p \in OwnInitParams}
    /\ once = MemoOnce_new("")
    /\ count = 0
    /\ panicked = FALSE
    /\ src = None
    /\ param0 = own.param
    /\ lastOp = "new"
    /\ lastArg = None
    /\ lastRet = None
    /\ run = 1
    /\ runCalls = 0
    /\ runReady = FALSE
    /\ fresh = FALSE
    /\ peer = [n |-> 0, ret |-> None]
    /\ accounted = 0

PairClear ==
    /\ kind = "Pair"
    /\ own' = Memo_clear(own)
    /\ ext' = MemoExtSum_clear(ext)
    /\ peer' = [peer EXCEPT !.ret = None]
    /\ Called("clear", None, None)
    /\ UNCHANGED <<kind, param0, once, count, panicked, src>>

PairIsReady ==
    /\ kind = "Pair"
    /\ peer' = [peer EXCEPT !.ret = Some(MemoExtSum_is_ready(ext))]
    /\ Called("is_ready", None, Some(Memo_is_ready(own)))
    /\ UNCHANGED <<kind, param0, ext, own, once, count, panicked, src>>

PairReady ==
    /\ kind = "Pair"
    /\ LET m == Memo_ready(own, count)
           e == MemoExtSum_ready(ext, peer.n, Memo_param(own))
       IN /\ m.n <= MaxCalls
          /\ e.n <= MaxCalls
          /\ own' = m.self
          /\ count' = m.n
          /\ ext' = e.self
          /\ peer' = [n |-> e.n, ret |-> None]
    /\ Called("ready", None, None)
    /\ UNCHANGED <<kind, param0, once, panicked, src>>

PairUpdate ==
    /\ kind = "Pair"
    /\ LET m == Memo_update(own, count)
           e == MemoExtSum_update(ext, peer.n, Memo_param(own))
       IN /\ m.n <= MaxCalls
          /\ e.n <= MaxCalls
          /\ own' = m.self
          /\ count' = m.n
          /\ ext' = e.self
          /\ peer' = [n |-> e.n, ret |-> None]
    /\ Called("update", None, None)
    /\ UNCHANGED <<kind, param0, once, panicked, src>>

PairGet ==
    /\ kind = "Pair"
    /\ LET m == Memo_get(own, count)
           e == MemoExtSum_get(ext, peer.n, Memo_param(own))
       IN /\ m.n <= MaxCalls
          /\ e.n <= MaxCalls
          /\ own' = m.self
          /\ count' = m.n
          /\ ext' = e.self
          /\ peer' = [n |-> e.n, ret |-> e.ret]
          /\ panicked' = (panicked \/ m.panic \/ e.panic)
          /\ Called("get", None, m.ret)
    /\ UNCHANGED <<kind, param0, once, src>>

PairTryGet ==
    /\ kind = "Pair"
    /\ peer' = [peer EXCEPT !.ret = MemoExtSum_try_get(ext)]
    /\ Called("try_get", None, Memo_try_get(own))
    /\ UNCHANGED <<kind, param0, ext, own, once, count, panicked, src>>

\* param_mut() on the Memo, clear() on the MemoExt
PairParamMut(q) ==
    /\ kind = "Pair"
    /\ own' = Memo_param_mut(own, q)
    /\ ext' = MemoExtSum_clear(ext)
    /\ peer' = [peer EXCEPT !.ret = None]
    /\ Called("param_mut", Some(q), None)
    /\ UNCHANGED <<kind, param0, once, count, panicked, src>>

\* update_param(op) on the Memo, clear() on the MemoExt
PairUpdateParam(op) ==
    /\ kind = "Pair"
    /\ OpEnabled(op, own.param)
    /\ own' = Memo_update_param(own, op)
    /\ ext' = MemoExtSum_clear(ext)
    /\ peer' = [peer EXCEPT !.ret = None]
    /\ Called("update_param", Some(op), None)
    /\ UNCHANGED <<kind, param0, once, count, panicked, src>>

PairNext ==
    \/ PairClear
    \/ PairIsReady
    \/ PairReady
    \/ PairUpdate
    \/ PairGet
    \/ PairTryGet
    \/ \E q \in OwnParams : PairParamMut(q)
    \/ \E op \in Ops : PairUpdateParam(op)

SpecPair == PairInit /\ [][PairNext]_vars

(* ------------------------ steps, for the claims ------------------------ *)

GetStep == (\E p \in ExtParams : ExtGet(p)) \/ OwnGet \/ OnceGet

(* -------------------------------- C1 ----------------------------------- *)
\* C1: Memo: in every reachable state, if the slot is present the cached
\* value is the computation applied to the parameter now stored, and what a
\* get() has just returned is the computation applied to that parameter.
C1_OwnedCacheValid ==
    kind = "Memo" =>
        /\ is_some(own.value) => own.value = Some(MemoSum_memoize(own.param))
        /\ lastOp = "get" => lastRet = Some(MemoSum_memoize(own.param))

\* a get() has returned the value of a parameter that was changed after an
\* earlier computation
C1_Witness ==
    /\ kind = "Memo"
    /\ lastOp = "get"
    /\ count >= 2
    /\ own.param # param0
    /\ MemoSum_memoize(own.param) # MemoSum_memoize(param0)
    /\ lastRet = Some(MemoSum_memoize(own.param))

(* -------------------------------- C2 ----------------------------------- *)
\* a get() on a fresh cell computes nothing and returns the stored value
C2_FreshGet ==
    (fresh /\ GetStep) => (count' = count /\ Slot' = Slot /\ lastRet' = Slot)

\* C2: Freshness: once ready()/get() has returned, is_ready() is true; and
\* as long as nothing has invalidated the cell since, is_ready() stays true
\* and every get() computes nothing and returns the stored value, for
\* MemoExt whatever parameter the get() is given.
C2_Freshness ==
    /\ [](lastOp \in {"ready", "get"} => IsReady)
    /\ [](fresh => IsReady)
    /\ [][C2_FreshGet]_vars

\* a MemoExt, made ready with one parameter, has answered a second get()
\* in a row that passed another parameter, with no computation
C2_Witness ==
    /\ kind = "MemoExt"
    /\ fresh
    /\ lastOp = "get"
    /\ run = 2
    /\ lastArg # src
    /\ count = runCalls
    /\ lastRet = ext.value

(* -------------------------------- C3 ----------------------------------- *)
\* the state after clear(), the get() after a clear(), the get() after a get()
C3_AfterClear ==
    lastOp = "clear" => (~IsReady /\ Slot = None /\ count = runCalls)

C3_GetAfterClear ==
    (lastOp = "clear" /\ GetStep) => (count' = count + 1 /\ IsReady')

C3_GetAfterGet ==
    (lastOp = "get" /\ GetStep) => (count' = count)

\* C3: Invalidation by clear: after clear() is_ready() is false and the slot
\* (so try_get()) is absent, the clear() calls computed nothing, the get()
\* that follows computes exactly once, and a get() after a get() computes
\* nothing.
C3_ClearInvalidates ==
    /\ []C3_AfterClear
    /\ [][C3_GetAfterClear]_vars
    /\ [][C3_GetAfterGet]_vars

\* a cell that was ready, after a computation, has just been cleared
C3_Witness ==
    /\ lastOp = "clear"
    /\ run = 1
    /\ runReady
    /\ count >= 1
    /\ Slot = None

(* -------------------------------- C4 ----------------------------------- *)
\* the state after param_mut()/update_param(), and the get() after them
C4_AfterMutableAccess ==
    (kind = "Memo" /\ lastOp \in {"param_mut", "update_param"}) =>
        (~Memo_is_ready(own) /\ own.value = None /\ count = runCalls)

C4_GetAfterMutableAccess ==
    (lastOp \in {"param_mut", "update_param"} /\ OwnGet) =>
        (count' = count + 1 /\ Memo_is_ready(own'))

\* C4: Memo: after param_mut() or update_param(op) the slot is absent,
\* whether or not the parameter was changed; the calls computed nothing, and
\* the get() that follows computes exactly once.
C4_MutableAccessInvalidates ==
    /\ []C4_AfterMutableAccess
    /\ [][C4_GetAfterMutableAccess]_vars

\* a ready Memo has just been through update_param with the identity
C4_Witness ==
    /\ kind = "Memo"
    /\ lastOp = "update_param"
    /\ lastArg = Some([name |-> "identity", x |-> 0])
    /\ run = 1
    /\ runReady
    /\ own.value = None

(* -------------------------------- C5 ----------------------------------- *)
\* get(q) on a present slot, and get(q) right after clear()
C5_GetOnPresent ==
    \A q \in ExtParams :
        (ExtGet(q) /\ is_some(ext.value)) =>
            (ext' = ext /\ count' = count /\ lastRet' = ext.value /\ src' = src)

C5_GetAfterClear ==
    \A q \in ExtParams :
        (ExtGet(q) /\ lastOp = "clear") =>
            (lastRet' = Some(CopyInt_memoize(q)) /\ src' = Some(q))

\* C5: MemoExt: a get(q) on a present slot returns the cached value as it
\* is and computes nothing, also when q is not the parameter that value was
\* computed from; the get(q) right after a clear() returns the value of q.
C5_ExtStaleValue ==
    /\ [][C5_GetOnPresent]_vars
    /\ [][C5_GetAfterClear]_vars

\* get(42) on a MemoExt whose value was computed from 420 has returned 420
C5_Witness ==
    /\ kind = "MemoExt"
    /\ lastOp = "get"
    /\ lastArg = Some(42)
    /\ src = Some(420)
    /\ lastRet = Some(420)

(* -------------------------------- C6 ----------------------------------- *)
\* a try_get() step, what it leaves alone, and the state after it
C6_TryGetStep == ExtTryGet \/ OwnTryGet \/ OnceTryGet

C6_TryGetFrame ==
    C6_TryGetStep =>
        (UNCHANGED <<ext, own, once, count, panicked>> /\ IsReady' = IsReady /\ lastRet' = Slot)

C6_AfterTryGet ==
    lastOp = "try_get" =>
        (lastRet = Slot /\ count = runCalls /\ IsReady = runReady /\ ~panicked)

\* C6: try_get() never computes and changes neither the cell nor
\* is_ready(); it returns the cached value when the slot is present and
\* None when it is absent.
C6_TryGetNonTriggering ==
    /\ []C6_AfterTryGet
    /\ [][C6_TryGetFrame]_vars

\* try_get() has returned the cached value of a Memo, twice in a row
C6_Witness ==
    /\ kind = "Memo"
    /\ lastOp = "try_get"
    /\ run = 2
    /\ is_some(lastRet)
    /\ lastRet = own.value
    /\ count = runCalls

(* -------------------------------- C7 ----------------------------------- *)
\* C7 as stated: any run of consecutive ready() calls computes exactly once
\* in total, whatever the state of the cell before the first of them.
C7_Original ==
    lastOp = "ready" => count - runCalls = 1

\* C7 as amended: a run of consecutive ready() calls computes exactly once
\* in total when the slot was absent before the first of them and not at
\* all when it was present; after each of them is_ready() is true.
C7_IdempotentReady ==
    lastOp = "ready" =>
        /\ count - runCalls = (IF runReady THEN 0 ELSE 1)
        /\ IsReady

\* MaxRun ready() calls in a row on a cell that was not ready: one computation
C7_Witness ==
    /\ lastOp = "ready"
    /\ run = MaxRun
    /\ ~runReady
    /\ count = runCalls + 1

(* -------------------------------- C8 ----------------------------------- *)
\* C8: a run of M consecutive update() calls computes exactly M times, also
\* over a slot that was present before the first, and is_ready() is true
\* after each.
C8_UpdateAlwaysRecomputes ==
    (lastOp = "update" /\ run <= MaxRun) =>
        /\ count - runCalls = run
        /\ IsReady

\* MaxRun update() calls in a row on a cell that was ready
C8_Witness ==
    /\ lastOp = "update"
    /\ run = MaxRun
    /\ runReady
    /\ count = runCalls + MaxRun

(* -------------------------------- C9 ----------------------------------- *)
\* C9: no get() ever unwraps an absent slot: nothing has panicked, every
\* get() has returned a value, and the slot is present after it.
C9_GetTotal ==
    /\ ~panicked
    /\ lastOp = "get" => (is_some(lastRet) /\ is_some(Slot))

\* a get() on a MemoOnce whose slot was absent has returned a value
C9_Witness ==
    /\ kind = "MemoOnce"
    /\ lastOp = "get"
    /\ run = 1
    /\ ~runReady
    /\ is_some(lastRet)

(* -------------------------------- C10 ---------------------------------- *)
\* C10: MemoOnce: the parameter is the one bound at construction in every
\* reachable state, param() returns it, every get() returns the computation
\* applied to it (23 for "My length is important!"), and a run of get()
\* calls computes once when the slot was absent before it and never
\* otherwise, so that gets on a new cell keep the count at 1.
C10_BorrowedParamFixed ==
    kind = "MemoOnce" =>
        /\ once.param = param0
        /\ lastOp = "param" => lastRet = Some(param0)
        /\ lastOp = "get" =>
            /\ lastRet = Some(MemoLength_memoize(param0))
            /\ param0 = "My length is important!" => lastRet = Some(23)
            /\ count - runCalls = (IF runReady THEN 0 ELSE 1)
            /\ (runCalls = 0 /\ ~runReady) => count = 1

\* repeated get() on a new MemoOnce over the string of the example
C10_Witness ==
    /\ kind = "MemoOnce"
    /\ param0 = "My length is important!"
    /\ lastOp = "get"
    /\ run = MaxRun
    /\ lastRet = Some(23)
    /\ count = 1

(* -------------------------------- C11 ---------------------------------- *)
\* C11: Memo over a sequence, with the sum as computation, in a caller that
\* alternates get() and pushes: every get() returns the sum of the sequence
\* as it then is, each push-then-get costs exactly one computation (the
\* count is the number of pushes so far, plus one once get() has been
\* called after the last); in particular get() is 3 on [1,2], 6 after the
\* push of 3 and 10 after the push of 4, with 3 computations by then.
C11_Sums ==
    /\ kind = "Memo"
    /\ SubSeq(own.param, 1, 2) = <<1, 2>>
    /\ lastOp = "get" =>
        /\ lastRet = own.value
        /\ count = Len(own.param) - 1
        /\ own.param = <<1, 2>> => lastRet = Some(3)
        /\ own.param = <<1, 2, 3>> => lastRet = Some(6)
        /\ own.param = <<1, 2, 3, 4>> => (lastRet = Some(10) /\ count = 3)
        /\ \A x, y \in SumsElems :
            own.param = <<1, 2, x, y>> => lastRet = Some(3 + x + y)
    /\ lastOp \in {"param_mut", "update_param"} =>
        /\ own.value = None
        /\ count = Len(own.param) - 2

\* the end of the test: [1, 2, 3, 4], get() has returned 10, 3 computations
C11_Witness ==
    /\ own.param = <<1, 2, 3, 4>>
    /\ lastOp = "get"
    /\ lastRet = Some(10)
    /\ count = 3

(* -------------------------------- C12 ---------------------------------- *)
\* C12: a Memo and a MemoExt that is passed the Memo's stored parameter on
\* every ready/update/get and cleared at every param_mut/update_param agree
\* after every step on is_ready(), on what try_get() would return, on what
\* the last is_ready()/try_get()/get() did return, and on the number of
\* computations; neither get() has panicked.
C12_MemoAsDisciplinedExt ==
    /\ Memo_is_ready(own) = MemoExtSum_is_ready(ext)
    /\ Memo_try_get(own) = MemoExtSum_try_get(ext)
    /\ own.value = ext.value
    /\ count = peer.n
    /\ lastRet = peer.ret
    /\ ~panicked

\* both have recomputed after a change of the parameter, and get() has
\* returned the same value on both
C12_Witness ==
    /\ kind = "Pair"
    /\ lastOp = "get"
    /\ own.param # param0
    /\ is_some(lastRet)
    /\ lastRet = peer.ret
    /\ lastRet # Some(MemoSum_memoize(param0))
    /\ count >= 2
    /\ peer.n = count

(* -------------------------------- C13 ---------------------------------- *)
\* a cell on which nothing has been computed yet
C13_NeverComputed ==
    count = 0 =>
        /\ ~IsReady
        /\ Slot = None
        /\ lastOp = "is_ready" => lastRet = Some(FALSE)
        /\ lastOp = "try_get" => lastRet = None

\* the step that computes for the first time
C13_FirstComputation ==
    (count = 0 /\ count' # 0) => (count' = 1 /\ lastOp' \in {"ready", "update", "get"})

\* C13: Lazy creation: a newly constructed cell is Stale (is_ready() false,
\* try_get() None) and construction has computed nothing; the cell stays so
\* until the first computation, which is made by a ready, update or get.
C13_LazyCreation ==
    /\ [](lastOp = "new" => (count = 0 /\ Slot = None /\ ~IsReady))
    /\ []C13_NeverComputed
    /\ [][C13_FirstComputation]_vars

\* is_ready() has answered false on a Memo that has never computed
C13_Witness ==
    /\ kind = "Memo"
    /\ count = 0
    /\ lastOp = "is_ready"
    /\ lastRet = Some(FALSE)
    /\ own.value = None

(* -------------------------------- C14 ---------------------------------- *)
\* C14: MemoExt provenance: whenever the slot is present, a call made since
\* the last clear() (since construction if there was none) has computed,
\* and the cached value is the computation applied to the parameter of the
\* latest such call; get() returns that value.
C14_ExtProvenance ==
    kind = "MemoExt" =>
        /\ is_some(ext.value) =>
            /\ is_some(src)
            /\ src[1] \in ExtParams
            /\ ext.value = Some(CopyInt_memoize(src[1]))
        /\ is_none(ext.value) => src = None
        /\ lastOp = "get" => lastRet = Some(CopyInt_memoize(src[1]))
        /\ lastOp = "clear" => (src = None /\ ext.value = None)

\* after an earlier computation and a clear(), the value was computed from
\* 42, and that is what a get(420) has returned
C14_Witness ==
    /\ kind = "MemoExt"
    /\ count = 2
    /\ ~runReady
    /\ src = Some(42)
    /\ lastOp = "get"
    /\ lastArg = Some(420)
    /\ lastRet = Some(42)

(* -------------------------------- C15 ---------------------------------- *)
\* a step that fills the slot, a step that empties it
C15_Fills ==
    (is_none(Slot) /\ is_some(Slot')) => lastOp' \in {"ready", "update", "get"}

C15_Empties ==
    (is_some(Slot) /\ is_none(Slot')) =>
        \/ lastOp' = "clear"
        \/ kind = "Memo" /\ lastOp' \in {"param_mut", "update_param"}

\* C15: the slot goes from absent to present only in a step of ready,
\* update or get, and from present to absent only in a step of clear or, on
\* a Memo, of param_mut or update_param; no other call changes whether the
\* slot is present.
C15_Transitions ==
    /\ [][C15_Fills]_vars
    /\ [][C15_Empties]_vars

\* param_mut() has just emptied the slot of a Memo that was ready
C15_Witness ==
    /\ kind = "Memo"
    /\ lastOp = "param_mut"
    /\ run = 1
    /\ runReady
    /\ own.value = None

(* -------------------------------- C16 ---------------------------------- *)
\* one ready() call on each type of cell
C16_ExtReady ==
    \A p \in ExtParams :
        ExtReady(p) =>
            IF ext.value = None
            THEN count' = count + 1 /\ ext'.value = Some(CopyInt_memoize(p))
            ELSE count' = count /\ ext' = ext

C16_OwnReady ==
    OwnReady =>
        IF own.value = None
        THEN count' = count + 1 /\ own' = [own EXCEPT !.value = Some(MemoSum_memoize(own.param))]
        ELSE count' = count /\ own' = own

C16_OnceReady ==
    OnceReady =>
        IF once.value = None
        THEN count' = count + 1 /\ once' = [once EXCEPT !.value = Some(MemoLength_memoize(once.param))]
        ELSE count' = count /\ once' = once

\* C16: ready(p) on an absent slot computes exactly once, with p, and stores
\* the result; on a present slot it computes nothing and leaves the cell as
\* it is, for MemoExt also when p is not the parameter the value was
\* computed from; so one call computes at most once.
C16_ReadyPerCall ==
    /\ [][C16_ExtReady]_vars
    /\ [][C16_OwnReady]_vars
    /\ [][C16_OnceReady]_vars

\* ready(p) on a MemoExt whose value came from another parameter: no-op
C16_Witness ==
    /\ kind = "MemoExt"
    /\ lastOp = "ready"
    /\ run = 1
    /\ runReady
    /\ is_some(src)
    /\ lastArg # src
    /\ ext.value = src
    /\ count = runCalls

(* -------------------------------- C17 ---------------------------------- *)
\* one update() call on each type of cell
C17_ExtUpdate ==
    \A p \in ExtParams :
        ExtUpdate(p) => (ext'.value = Some(CopyInt_memoize(p)) /\ src' = Some(p))

C17_OwnUpdate ==
    OwnUpdate => own' = [own EXCEPT !.value = Some(MemoSum_memoize(own.param))]

C17_OnceUpdate ==
    OnceUpdate => once' = [once EXCEPT !.value = Some(MemoLength_memoize(once.param))]

\* C17: after update(p) the slot is present and holds the computation
\* applied to p (to the stored parameter on Memo and MemoOnce), whatever it
\* held before, for MemoExt also a value cached from another parameter; a
\* present slot is present again after the call, which is one step.
C17_UpdateOverwrites ==
    /\ [](lastOp = "update" => is_some(Slot))
    /\ [](kind = "MemoExt" /\ lastOp = "update" => (ext.value = lastArg /\ src = lastArg))
    /\ [][C17_ExtUpdate]_vars
    /\ [][C17_OwnUpdate]_vars
    /\ [][C17_OnceUpdate]_vars

\* update(42) on a MemoExt that was ready: the value is now that of 42
C17_Witness ==
    /\ kind = "MemoExt"
    /\ lastOp = "update"
    /\ run = 1
    /\ runReady
    /\ lastArg = Some(42)
    /\ ext.value = Some(42)
    /\ count = runCalls + 1

(* -------------------------------- C18 ---------------------------------- *)
\* one get() call on each type of cell, against ready() from the same state
C18_ExtGet ==
    \A p \in ExtParams :
        ExtGet(p) =>
            LET r == MemoExt_ready(ext, count, p)
            IN ext' = r.self /\ count' = r.n /\ lastRet' = ext'.value

C18_OwnGet ==
    OwnGet =>
        LET r == Memo_ready(own, count)
        IN own' = r.self /\ count' = r.n /\ lastRet' = own'.value

C18_OnceGet ==
    OnceGet =>
        LET r == MemoOnce_ready(once, count)
        IN once' = r.self /\ count' = r.n /\ lastRet' = once'.value

\* a try_get() right after a get()
C18_TryGetAfterGet ==
    (lastOp = "get" /\ C6_TryGetStep) => (lastRet' = lastRet /\ is_some(lastRet'))

\* C18: get(p) leaves the cell and the count as ready(p) would from the
\* same state, and returns what the slot then holds, which is what a
\* try_get() right after it returns.
C18_GetIsReadyThenRead ==
    /\ [](lastOp = "get" => lastRet = Slot)
    /\ [][C18_ExtGet]_vars
    /\ [][C18_OwnGet]_vars
    /\ [][C18_OnceGet]_vars
    /\ [][C18_TryGetAfterGet]_vars

\* a get() on a Memo whose slot was absent has computed once, as ready()
\* would, and returned what the slot now holds
C18_Witness ==
    /\ kind = "Memo"
    /\ lastOp = "get"
    /\ run = 1
    /\ ~runReady
    /\ count = runCalls + 1
    /\ is_some(lastRet)
    /\ lastRet = own.value

(* -------------------------------- C19 ---------------------------------- *)
\* one update_param(op) call
C19_UpdateParamStep ==
    \A op \in Ops :
        OwnUpdateParam(op) =>
            /\ own'.value = None
            /\ own'.param = Apply(op, own.param)
            /\ op.name = "identity" => own'.param = own.param
            /\ op.name = "push" => own'.param = Append(own.param, op.x)
            /\ count' = count

\* C19: Memo: update_param(op) leaves the slot absent and the parameter
\* equal to op applied once to the parameter before the call; no state
\* holds the value cached before the call beside the new parameter.
C19_UpdateParam ==
    /\ [](kind = "Memo" /\ lastOp = "update_param" => own.value = None)
    /\ [](kind = "Memo" /\ is_some(own.value) => own.value = Some(SumSeq(own.param)))
    /\ [][C19_UpdateParamStep]_vars

\* new(vec![1, 2]); get(); update_param(|p| p.push(2))
C19_Witness ==
    /\ kind = "Memo"
    /\ param0 = <<1, 2>>
    /\ lastOp = "update_param"
    /\ lastArg = Some([name |-> "push", x |-> 2])
    /\ run = 1
    /\ runReady
    /\ own = [value |-> None, param |-> <<1, 2, 2>>]
    /\ count = 1

(* -------------------------------- C20 ---------------------------------- *)
\* the calls of is_ready() and of param(), and what they leave alone
C20_IsReadyStep ==
    (ExtIsReady \/ OwnIsReady \/ OnceIsReady) =>
        (UNCHANGED <<ext, own, once, count, panicked>> /\ lastRet' = Some(Len(Slot) = 1))

C20_ParamStep ==
    (OwnParam \/ OnceParam) =>
        /\ UNCHANGED <<ext, own, once, count, panicked>>
        /\ kind = "Memo" => lastRet' = Some(own.param)
        /\ kind = "MemoOnce" => lastRet' = Some(once.param)

\* C20: is_ready() returns true exactly when the slot is present; is_ready()
\* and param() leave the slot, the parameter and the count as they were;
\* param() returns the parameter now stored.
C20_PureQueries ==
    /\ [](lastOp = "is_ready" => (lastRet = Some(Slot # None) /\ count = runCalls))
    /\ [](kind = "Memo" /\ lastOp = "param" => (lastRet = Some(own.param) /\ count = runCalls))
    /\ [](kind = "MemoOnce" /\ lastOp = "param" => (lastRet = Some(once.param) /\ count = runCalls))
    /\ [][C20_IsReadyStep]_vars
    /\ [][C20_ParamStep]_vars

\* is_ready() has answered true on a Memo whose parameter was changed since
\* construction
C20_Witness ==
    /\ kind = "Memo"
    /\ lastOp = "is_ready"
    /\ lastRet = Some(TRUE)
    /\ is_some(own.value)
    /\ own.param # param0
    /\ count = runCalls

(* -------------------------------- C21 ---------------------------------- *)
\* the calls of a Memo that take no handle on the parameter and no closure
C21_ComputeStep ==
    (OwnClear \/ OwnReady \/ OwnUpdate \/ OwnGet \/ OwnTryGet) =>
        own'.param = own.param

\* a step after which the stored parameter differs
C21_ParamChange ==
    (own'.param # own.param) =>
        \/ \E q \in OwnParams : OwnParamMut(q)
        \/ \E op \in Ops : OwnUpdateParam(op)

C22_ZeroStep ==
    (\/ ExtClear \/ ExtIsReady \/ ExtTryGet
     \/ OwnClear \/ OwnIsReady \/ OwnTryGet \/ OwnParam
     \/ (\E q \in OwnParams : OwnParamMut(q))
     \/ (\E op \in Ops : OwnUpdateParam(op))
     \/ OnceClear \/ OnceIsReady \/ OnceTryGet \/ OnceParam) =>
        count' = count

\* the calls that may reach memoize, and when they do
C22_ComputeStep ==
    /\ ((\E p \in ExtParams : ExtReady(p)) \/ OwnReady \/ OnceReady \/ GetStep) =>
           count' = count + (IF Slot = None THEN 1 ELSE 0)
    /\ ((\E p \in ExtParams : ExtUpdate(p)) \/ OwnUpdate \/ OnceUpdate) =>
           count' = count + 1

\* one call invokes memoize at most once
C22_AtMostOnce == count' \in {count, count + 1}

\* C22: for each type of cell, in every reachable state the number of
\* memoize invocations equals the number of ready/get calls made while the
\* slot was absent plus the number of update calls; one call invokes memoize
\* at most once; new, clear, is_ready, try_get, param, param_mut and
\* update_param invoke it zero times.
C22_Accounting ==
    /\ [](count = accounted)
    /\ [](lastOp = "new" => count = 0)
    /\ [][C22_AtMostOnce]_vars
    /\ [][C22_ZeroStep]_vars
    /\ [][C22_ComputeStep]_vars

\* a MemoOnce after a second update() in a row on a slot that an earlier
\* call had filled: three invocations in all, as many as the calls accounted
C22_Witness ==
    /\ kind = "MemoOnce"
    /\ lastOp = "update"
    /\ run = 2
    /\ runReady
    /\ runCalls = 1
    /\ count = 3
    /\ accounted = 3

====
